---- MODULE Spec2Model ----
(***************************************************************************)
(* hvm-bench: the benchmark command (main.rs), the orchestration of the    *)
(* build phase and the run phase (bench.rs), the process runner and the    *)
(* per-mode pipelines (run.rs, ext.rs), the result matrix (stats.rs) and   *)
(* the report formatter (format.rs).                                       *)
(*                                                                         *)
(* Text is a sequence of one-character strings, so that prefix stripping,  *)
(* file stems, padding and the byte order of BTreeMap<String, _> keys are  *)
(* computed as the code computes them.                                     *)
(***************************************************************************)
EXTENDS Integers, Sequences, FiniteSets, TLC

(***************************************************************************)
(* Bounds of the model.                                                    *)
(***************************************************************************)
\* longest list of remote revisions given with --revs
MaxRevs == 2
\* how many subprocesses of the run phase may misbehave in one run
MaxFaults == 1
\* the pieces a text given to parse_stdout alone is made of, at most
MaxPieces == 5
\* status_stdout_timeout alone: the bytes the pipe holds at most, and the bytes
\* a process writes at most
PipeCapacity == 3
MaxOutput == 5

(***************************************************************************)
(* Text.                                                                   *)
(***************************************************************************)
\* the characters the model uses, in the order of their byte values
Alphabet ==
  << " ", "(", ")", "-", ".", "1", ":", "E", "I", "M", "T", "_",
     "a", "b", "c", "d", "e", "f", "h", "i", "l", "m", "n", "o", "r", "s",
     "t", "u", "v" >>

Ord(c) == CHOOSE k \in 1..Len(Alphabet) : Alphabet[k] = c

Min2(a, b) == IF a < b THEN a ELSE b

\* Ord for String: byte-wise lexicographic, a proper prefix sorts first
StrLess(s, t) ==
  \E k \in 1..(Min2(Len(s), Len(t)) + 1) :
    /\ \A n \in 1..(k - 1) : s[n] = t[n]
    /\ IF k <= Min2(Len(s), Len(t))
         THEN Ord(s[k]) < Ord(t[k])
         ELSE Len(s) < Len(t)

\* the keys of a BTreeMap<String, _> in iteration order
RECURSIVE SortedKeys(_)
SortedKeys(S) ==
  IF S = {} THEN << >>
  ELSE LET least == CHOOSE s \in S : \A t \in S \ {s} : StrLess(s, t)
       IN  << least >> \o SortedKeys(S \ {least})

Spaces(n) == [k \in 1..n |-> " "]

\* format!("{col:<COLUMN_WIDTH$}") and format!("{col:>COLUMN_WIDTH$}")
COLUMN_WIDTH == 14
PadRight(s) == IF Len(s) >= COLUMN_WIDTH THEN s ELSE s \o Spaces(COLUMN_WIDTH - Len(s))
PadLeft(s) == IF Len(s) >= COLUMN_WIDTH THEN s ELSE Spaces(COLUMN_WIDTH - Len(s)) \o s

\* str::strip_prefix: the remainder when s begins with p
HasPrefix(s, p) == Len(s) >= Len(p) /\ SubSeq(s, 1, Len(p)) = p
StripPrefix(s, p) == SubSeq(s, Len(p) + 1, Len(s))

TIME_PREFIX == << "-", " ", "T", "I", "M", "E", ":", " " >>
LOCAL_REV == << "(", "l", "o", "c", "a", "l", ")" >>
LOCAL_BIN == << "l", "o", "c", "a", "l", "_", "h", "v", "m" >>
TIMEOUT_TEXT == << "t", "i", "m", "e", "o", "u", "t" >>
ERROR_TEXT == << "e", "r", "r", "o", "r" >>

(***************************************************************************)
(* Inputs: revision labels, the programs directory, what a process writes. *)
(***************************************************************************)
Labels == { << "a" >>, << "b" >>, LOCAL_BIN }

\* the values of --revs
RECURSIVE SeqsUpTo(_, _)
SeqsUpTo(S, n) ==
  IF n = 0 THEN { << >> }
  ELSE LET shorter == SeqsUpTo(S, n - 1)
       IN  shorter \cup { Append(q, x) : q \in { r \in shorter : Len(r) = n - 1 }, x \in S }

RevLists == SeqsUpTo(Labels, MaxRevs)

FIB_HVM == << "f", "i", "b", ".", "h", "v", "m" >>
FIB_C == << "f", "i", "b", ".", "c" >>
SUM_HVM == << "s", "u", "m", ".", "h", "v", "m" >>

\* what fs::read_dir("./programs") may list
Listings ==
  { << >>, << FIB_HVM >>, << FIB_HVM, SUM_HVM >>, << FIB_C, FIB_HVM >> }

\* captured standard output, as its lines
StdoutTimed ==
  << << "r", "u", "n" >>, TIME_PREFIX \o << "1", "s" >>, TIME_PREFIX \o << "1", "1", "s" >> >>
StdoutNoMarker == << << "r", "u", "n" >>, << " " >> \o TIME_PREFIX \o << "1", "s" >> >>
Stdouts == { StdoutTimed, StdoutNoMarker }

\* the texts parse_stdout alone is given: up to MaxPieces pieces in a row
Pieces == { TIME_PREFIX, << "1" >>, << "s" >>, << " " >>, << "\n" >>, << "\r" >> }
RECURSIVE Concat(_)
Concat(ps) == IF ps = << >> THEN << >> ELSE Head(ps) \o Concat(Tail(ps))
StdoutTexts == { Concat(ps) : ps \in SeqsUpTo(Pieces, MaxPieces) }

(***************************************************************************)
(* Result<Timing> and the pure functions of run.rs, stats.rs, bench.rs.    *)
(***************************************************************************)
Ok(t) == [ok |-> TRUE, val |-> t]
Err == [ok |-> FALSE, val |-> << >>]

\* ExitStatus::check_success: Ok exactly for status zero
check_success_any(status) == TRUE
check_success(status) == status = 0

\* str::lines: the text is split after each "\n"; a line loses its "\n" and
\* then a "\r" right before it; no line after a final "\n"
RECURSIVE lines(_)
lines(text) ==
  IF text = << >> THEN << >>
  ELSE LET ends == { k \in 1..Len(text) : text[k] = "\n" }
       IN  IF ends = {} THEN << text >>
           ELSE LET q == CHOOSE k \in ends : \A n \in ends : k <= n
                    raw == SubSeq(text, 1, q - 1)
                    line == IF raw # << >> /\ raw[Len(raw)] = "\r"
                              THEN SubSeq(raw, 1, Len(raw) - 1) ELSE raw
                IN  << line >> \o lines(SubSeq(text, q + 1, Len(text)))

\* a parse_stdout that would return the last timing line
parse_stdout_last(stdout) ==
  LET hits == { k \in 1..Len(stdout) : HasPrefix(stdout[k], TIME_PREFIX) }
  IN  IF hits = {} THEN [ok |-> FALSE, val |-> << >>]
      ELSE LET last == CHOOSE k \in hits : \A n \in hits : n <= k
           IN  [ok |-> TRUE, val |-> StripPrefix(stdout[last], TIME_PREFIX)]
\* parse_stdout, on the lines of its argument: the remainder of the first line
\* that begins with TIME_PREFIX
parse_stdout(stdout) ==
  LET hits == { k \in 1..Len(stdout) : HasPrefix(stdout[k], TIME_PREFIX) }
  IN  IF hits = {} THEN Err
      ELSE LET first == CHOOSE k \in hits : \A n \in hits : k <= n
           IN  Ok(StripPrefix(stdout[first], TIME_PREFIX))

\* Path::file_stem of an entry of the programs directory
file_stem(name) ==
  LET dots == { k \in 1..Len(name) : name[k] = "." }
  IN  IF dots = {} THEN name
      ELSE LET last == CHOOSE k \in dots : \A n \in dots : n <= k
           IN  IF last = 1 THEN name ELSE SubSeq(name, 1, last - 1)

\* the fields of Program in the order bench_bin evaluates them
Modes == << "interpreted_c", "interpreted_cuda", "interpreted_rust", "compiled_c", "compiled_cuda" >>
InterpretedModes == { 1, 2, 3 }
CompiledModes == { 4, 5 }

\* Program::compiled and Program::interpreted
compiled(program, runtime) ==
  IF runtime = << "c" >> THEN program.compiled_c ELSE program.compiled_cuda
interpreted(program, runtime) ==
  IF runtime = << "c" >> THEN program.interpreted_c
  ELSE IF runtime = << "c", "u", "d", "a" >> THEN program.interpreted_cuda
  ELSE program.interpreted_rust

(***************************************************************************)
(* format.rs.  A line is kept as the sequence of its padded columns, which *)
(* join(COLUMN_PADDING) separates by two spaces.                           *)
(***************************************************************************)
COLUMN_PADDING == << " ", " " >>
FILE_COL == << "f", "i", "l", "e" >>
RUNTIME_COL == << "r", "u", "n", "t", "i", "m", "e" >>
RT_C == << "c" >>
RT_CUDA == << "c", "u", "d", "a" >>
RT_RUST == << "r", "u", "s", "t" >>

RECURSIVE SumLen(_)
SumLen(cols) == IF cols = << >> THEN 0 ELSE Len(Head(cols)) + SumLen(Tail(cols))

\* String::len of the columns joined by COLUMN_PADDING
JoinedLen(cols) ==
  IF cols = << >> THEN 0 ELSE SumLen(cols) + Len(COLUMN_PADDING) * (Len(cols) - 1)

\* Result::as_deref().unwrap_or("error")
unwrap_or_error_timeout_as_error(result) ==
  IF result.ok /\ result.val # TIMEOUT_TEXT THEN result.val ELSE ERROR_TEXT
unwrap_or_error(result) == IF result.ok THEN result.val ELSE ERROR_TEXT

\* format_header: "file", "runtime" and the revisions, each padded on the right
format_header(revisions) ==
  LET cols == << PadRight(FILE_COL), PadRight(RUNTIME_COL) >>
                \o [k \in 1..Len(revisions) |-> PadRight(revisions[k])]
  IN  [cols |-> cols, underline |-> JoinedLen(cols)]

\* by_program_revision: program name -> the revisions that hold an entry for it
ProgramNames(st) == UNION { DOMAIN st[r] : r \in DOMAIN st }
RevisionsOf(st, program) == { r \in DOMAIN st : program \in DOMAIN st[r] }

\* writeln_runtime!: one row, the revisions in the key order of the inner map
\* `section` tells the copy of the macro: "compiled" reads r.compiled(runtime),
\* "interpreted" reads r.interpreted(runtime)
runtime_field(section, program, runtime) ==
  IF section = "compiled" THEN compiled(program, runtime) ELSE interpreted(program, runtime)

writeln_runtime(st, program, shown, runtime, section) ==
  LET revisions == SortedKeys(RevisionsOf(st, program))
  IN  << PadRight(shown), PadRight(runtime) >>
      \o [k \in 1..Len(revisions) |->
            PadLeft(unwrap_or_error(runtime_field(section, st[revisions[k]][program], runtime)))]

format_compiled_rows(st) ==
  LET programs == SortedKeys(ProgramNames(st))
  IN  [k \in 1..Len(programs) |->
        LET row == writeln_runtime(st, programs[k], << >>, RT_CUDA, "compiled")
        IN  [rows |-> << writeln_runtime(st, programs[k], programs[k], RT_C, "compiled"), row >>,
             sep |-> JoinedLen(row)]]

format_interpreted_rows(st) ==
  LET programs == SortedKeys(ProgramNames(st))
  IN  [k \in 1..Len(programs) |->
        LET row == writeln_runtime(st, programs[k], << >>, RT_RUST, "interpreted")
        IN  [rows |-> << writeln_runtime(st, programs[k], programs[k], RT_C, "interpreted"),
                         writeln_runtime(st, programs[k], << >>, RT_CUDA, "interpreted"),
                         row >>,
             sep |-> JoinedLen(row)]]

\* format: the compiled table, then the interpreted table
format(st) ==
  [printed |-> TRUE,
   compiled |-> [header |-> format_header(SortedKeys(DOMAIN st)),
                 groups |-> format_compiled_rows(st)],
   interpreted |-> [header |-> format_header(SortedKeys(DOMAIN st)),
                    groups |-> format_interpreted_rows(st)]]

(***************************************************************************)
(* State.                                                                  *)
(***************************************************************************)
VARIABLES
  pc,           \* where main is: "start", ..., "exited"
  exit,         \* the exit status of the process, -1 while it runs
  workspace,    \* Bench.tempdir: "absent", "present", "removed"
  remote_revs,  \* Bench.remote_revs
  listing,      \* the entries of ./programs
  bin_dir,      \* the entries of tempdir/bin: name -> "dir" | "hvm"
  rev,          \* index of the revision being built or benchmarked
  progs,        \* the Vec that Bench::programs returned to bench_bin
  prog,         \* index into progs
  mode,         \* index into Modes: the field of Program being evaluated
  stage,        \* "run", or for a compiled mode "gen", "cc", "run"
  child,        \* the subprocess spawned last
  runner,       \* how the last call of status_stdout_timeout ended
  leaked,       \* subprocesses still running that no one waits for
  stats,        \* Bench.stats: label -> program name -> Program
  cur,          \* the fields of the Program literal evaluated so far
  curHung,      \* the modes of cur whose process hit the deadline
  writes,       \* how often each (label, program name) was inserted
  hung,         \* per inserted (label, program name): the modes that hit the deadline
  report,       \* what main printed
  faults,       \* subprocesses of the run phase that misbehaved so far
  buildFailed,  \* a checkout or a cargo build exited with non-zero status
  readDirFailed, \* Bench::programs returned an error
  built,        \* build_all returned Ok
  benchStarted, \* a benchmark subprocess was spawned
  head,         \* the revision checked out in the clone, 0 after the clone
  target,       \* target/release/hvm of the local tree and of the clone
  binFrom,      \* per entry of bin/: the build its binary came from
  binWrites,    \* per entry of bin/: how often a binary was moved to it
  scratch,      \* the scratch files and directories of run.rs that exist
  ranOn,        \* per revision benchmarked so far: the listing bench_bin got
  stdout_text,  \* parse_stdout alone: the text given to it
  parsed,       \* parse_stdout alone: what it returned
  proc,         \* status_stdout_timeout alone: the spawned process
  pending,      \* status_stdout_timeout alone: bytes the process has yet to write
  pipe,         \* status_stdout_timeout alone: bytes written and not yet read
  got,          \* status_stdout_timeout alone: bytes read by the harness
  outcome       \* status_stdout_timeout alone: where the call is, how it returned

vars ==
  << pc, exit, workspace, remote_revs, listing, bin_dir, rev, progs, prog, mode, stage,
     child, runner, leaked, stats, cur, curHung, writes, hung, report, faults,
     buildFailed, readDirFailed, built, benchStarted, head, target, binFrom, binWrites,
     scratch, ranOn, stdout_text, parsed, proc, pending, pipe, got, outcome >>

\* the variables of the harness, of parse_stdout taken alone and of
\* status_stdout_timeout taken alone
harnessVars ==
  << pc, exit, workspace, remote_revs, listing, bin_dir, rev, progs, prog, mode, stage,
     child, runner, leaked, stats, cur, curHung, writes, hung, report, faults,
     buildFailed, readDirFailed, built, benchStarted, head, target, binFrom, binWrites,
     scratch, ranOn >>
parserVars == << stdout_text, parsed >>
runnerVars == << proc, pending, pipe, got, outcome >>
buildVars == << head, target, binFrom, binWrites >>

NoChild == [kind |-> "none", status |-> "none", deadline |-> FALSE, written |-> << >>]
EmptyMap == << >>
NoReport == [printed |-> FALSE]
NoBuild == [tree |-> "none", rev |-> 0]
NotParsed == [called |-> FALSE, result |-> Err]
NoProcess == [status |-> "none", code |-> 0, total |-> 0, kills |-> FALSE]

\* parse_stdout is not being looked at alone
ParserIdle == stdout_text = << >> /\ parsed = NotParsed
\* status_stdout_timeout is not being looked at alone
RunnerIdle == proc = NoProcess /\ pending = 0 /\ pipe = 0 /\ got = 0 /\ outcome = "idle"

\* the harness before main runs
HarnessStart ==
  /\ pc = "start"
  /\ exit = -1
  /\ workspace = "absent"
  /\ bin_dir = EmptyMap
  /\ head = 0
  /\ target = [local |-> NoBuild, remote |-> NoBuild]
  /\ binFrom = EmptyMap
  /\ binWrites = EmptyMap
  /\ scratch = {}
  /\ ranOn = EmptyMap
  /\ rev = 1
  /\ progs = << >>
  /\ prog = 1
  /\ mode = 1
  /\ stage = "run"
  /\ child = NoChild
  /\ runner = "idle"
  /\ leaked = 0
  /\ stats = EmptyMap
  /\ cur = EmptyMap
  /\ curHung = {}
  /\ writes = EmptyMap
  /\ hung = EmptyMap
  /\ report = NoReport
  /\ faults = 0
  /\ buildFailed = FALSE
  /\ readDirFailed = FALSE
  /\ built = FALSE
  /\ benchStarted = FALSE

Init ==
  /\ remote_revs \in RevLists
  /\ listing \in Listings
  /\ HarnessStart
  /\ ParserIdle
  /\ RunnerIdle

\* BTreeMap::insert: the new value replaces an old one under the same key
insert(map, key, value) == (key :> value) @@ map

Bump(count, key) ==
  IF key \in DOMAIN count THEN [count EXCEPT ![key] = @ + 1] ELSE (key :> 1) @@ count

\* a harness that would benchmark after each build
bench_after_each_build(k) == "programs"
\* build_all and bench: after the binary of the k-th remote revision (0: the
\* local one) was moved, the loop of build_all goes on with the next revision,
\* and only after the last one does build_all return and bench_all start
build_all_next(k) == IF k < Len(remote_revs) THEN "create_dir" ELSE "programs"

\* the label bench_all passes to bench_bin for the rev-th revision
RevLabel(k) == IF k <= Len(remote_revs) THEN remote_revs[k] ELSE LOCAL_REV

BuildUnchanged ==
  << remote_revs, listing, progs, prog, mode, stage, child, runner, leaked, stats, cur,
     curHung, writes, hung, report, faults, readDirFailed, benchStarted, scratch, ranOn,
     parserVars, runnerVars >>

(***************************************************************************)
(* main.rs and the build phase of bench.rs.                                *)
(***************************************************************************)
\* a TempDir that would be kept on disk when its owner goes away
leak_tempdir(w) == w
\* Drop of tempfile::TempDir, the field Bench.tempdir: the directory is removed
drop_tempdir(w) == IF w = "present" THEN "removed" ELSE w

\* main returns the error of a `?`: Bench is dropped, the process exits with 1
Fatal ==
  /\ pc' = "exited"
  /\ exit' = 1
  /\ workspace' = drop_tempdir(workspace)

\* main up to Bench::new; in Bench::new the TempDir exists when a create_dir
\* fails and is dropped by the `?`
Main_Start ==
  /\ pc = "start"
  /\ \E repo_exists \in BOOLEAN, tempdir_ok \in BOOLEAN, dirs_ok \in BOOLEAN :
       IF repo_exists /\ tempdir_ok /\ dirs_ok
         THEN pc' = "clone" /\ workspace' = "present" /\ exit' = exit
       ELSE IF repo_exists /\ tempdir_ok
         THEN pc' = "exited" /\ exit' = 1 /\ workspace' = drop_tempdir("present")
       ELSE Fatal
  /\ UNCHANGED << bin_dir, rev, buildFailed, built, buildVars >>
  /\ UNCHANGED BuildUnchanged

\* Bench::clone_remote
CloneRemote ==
  /\ pc = "clone"
  /\ \E status \in { 0, 1 } :
       IF check_success(status)
         THEN pc' = "build_local" /\ UNCHANGED << exit, workspace >>
         ELSE Fatal
  /\ UNCHANGED << bin_dir, rev, buildFailed, built, buildVars >>
  /\ UNCHANGED BuildUnchanged

\* build_all: cargo_build(local_dir)
CargoBuildLocal ==
  /\ pc = "build_local"
  /\ \E status \in { 0, 1 } :
       /\ buildFailed' = (buildFailed \/ status # 0)
       /\ IF check_success(status)
            THEN /\ pc' = "rename_local"
                 /\ target' = [target EXCEPT !.local = [tree |-> "local", rev |-> 0]]
                 /\ UNCHANGED << exit, workspace >>
            ELSE Fatal /\ UNCHANGED target
  /\ UNCHANGED << bin_dir, rev, built, head, binFrom, binWrites >>
  /\ UNCHANGED BuildUnchanged

\* build_all: fs::rename(target/release/hvm, bin/local_hvm), then the loop starts
RenameLocal ==
  /\ pc = "rename_local"
  /\ \E ok \in BOOLEAN :
       IF ok
         THEN /\ bin_dir' = (LOCAL_BIN :> "hvm") @@ bin_dir
              /\ binFrom' = insert(binFrom, LOCAL_BIN, target.local)
              /\ binWrites' = Bump(binWrites, LOCAL_BIN)
              /\ target' = [target EXCEPT !.local = NoBuild]
              /\ rev' = 1
              /\ pc' = build_all_next(0)
              /\ built' = (Len(remote_revs) = 0)
              /\ UNCHANGED << exit, workspace >>
         ELSE Fatal /\ UNCHANGED << bin_dir, rev, built, target, binFrom, binWrites >>
  /\ UNCHANGED << buildFailed, head >>
  /\ UNCHANGED BuildUnchanged

\* a create_dir_all, which returns Ok when the directory exists
create_dir_all_exists(entries, name) == FALSE
\* fs::create_dir: the error AlreadyExists when bin/ has an entry of that name
create_dir_exists(entries, name) == name \in DOMAIN entries

\* build_all: fs::create_dir(bin/<rev>), an error when the entry exists
CreateBinRevDir ==
  /\ pc = "create_dir"
  /\ \E ok \in BOOLEAN :
       IF ok /\ ~create_dir_exists(bin_dir, remote_revs[rev])
         THEN /\ bin_dir' = (remote_revs[rev] :> "dir") @@ bin_dir
              /\ pc' = "checkout"
              /\ UNCHANGED << exit, workspace >>
         ELSE Fatal /\ UNCHANGED bin_dir
  /\ UNCHANGED << rev, buildFailed, built, buildVars >>
  /\ UNCHANGED BuildUnchanged

\* build_all: checkout_remote(rev)
CheckoutRemote ==
  /\ pc = "checkout"
  /\ \E status \in { 0, 1 } :
       /\ buildFailed' = (buildFailed \/ status # 0)
       /\ IF check_success(status)
            THEN pc' = "build_remote" /\ head' = rev /\ UNCHANGED << exit, workspace >>
            ELSE Fatal /\ UNCHANGED head
  /\ UNCHANGED << bin_dir, rev, built, target, binFrom, binWrites >>
  /\ UNCHANGED BuildUnchanged

\* build_all: cargo_build(remote_repo_dir)
CargoBuildRemote ==
  /\ pc = "build_remote"
  /\ \E status \in { 0, 1 } :
       /\ buildFailed' = (buildFailed \/ status # 0)
       /\ IF check_success(status)
            THEN /\ pc' = "rename_remote"
                 /\ target' = [target EXCEPT !.remote = [tree |-> "remote", rev |-> head]]
                 /\ UNCHANGED << exit, workspace >>
            ELSE Fatal /\ UNCHANGED target
  /\ UNCHANGED << bin_dir, rev, built, head, binFrom, binWrites >>
  /\ UNCHANGED BuildUnchanged

\* build_all: fs::rename(repo/target/release/hvm, bin/<rev>/hvm), then the next
\* revision; after the last one bench_all starts with the first revision
RenameRemote ==
  /\ pc = "rename_remote"
  /\ \E ok \in BOOLEAN :
       IF ok
         THEN /\ bin_dir' = [bin_dir EXCEPT ![remote_revs[rev]] = "hvm"]
              /\ binFrom' = insert(binFrom, remote_revs[rev], target.remote)
              /\ binWrites' = Bump(binWrites, remote_revs[rev])
              /\ target' = [target EXCEPT !.remote = NoBuild]
              /\ rev' = IF rev < Len(remote_revs) THEN rev + 1 ELSE 1
              /\ pc' = build_all_next(rev)
              /\ built' = (rev = Len(remote_revs))
              /\ UNCHANGED << exit, workspace >>
         ELSE Fatal /\ UNCHANGED << bin_dir, rev, built, target, binFrom, binWrites >>
  /\ UNCHANGED << buildFailed, head >>
  /\ UNCHANGED BuildUnchanged

(***************************************************************************)
(* The run phase: bench_all, bench_bin and the pipelines of run.rs.        *)
(***************************************************************************)
\* bench_bin returned Ok: bench_all goes to the next revision, "(local)" last,
\* and after it bench returns to main
NextRevision ==
  /\ rev' = IF rev <= Len(remote_revs) THEN rev + 1 ELSE rev
  /\ pc' = IF rev <= Len(remote_revs) THEN "programs" ELSE "print"

\* bench_bin: self.programs(), once for each revision
Programs ==
  /\ pc = "programs"
  /\ \E ok \in BOOLEAN :
       IF ok
         THEN /\ progs' = listing
              /\ ranOn' = insert(ranOn, rev, listing)
              /\ IF listing = << >> THEN NextRevision ELSE pc' = "spawn" /\ rev' = rev
              /\ UNCHANGED << exit, workspace, readDirFailed >>
         ELSE Fatal /\ readDirFailed' = TRUE /\ UNCHANGED << progs, rev, ranOn >>
  /\ UNCHANGED << remote_revs, listing, bin_dir, prog, mode, stage, child, runner, leaked,
                  stats, cur, curHung, writes, hung, report, faults, buildFailed,
                  built, benchStarted, buildVars, scratch, parserVars, runnerVars >>

\* which wait has a deadline: status_stdout_timeout (the interpreted run and the
\* run of the compiled binary) has, status_stdout (generate_program) and
\* check_success (the native compiler) have none
HasDeadline(st) == st = "run"

ChildKind(m, st) ==
  IF m \in InterpretedModes THEN "runtime"
  ELSE IF st = "gen" THEN "generate"
  ELSE IF st = "cc" THEN "compiler"
  ELSE "binary"

\* BTreeMap::entry(rev).or_default()
entry_or_default(st, label) == IF label \in DOMAIN st THEN st ELSE (label :> EmptyMap) @@ st

\* the cell bench_bin is at
Cell == << rev, prog, mode >>

\* NamedTempFile::with_suffix in compiled_c and compiled_cuda, before the
\* generator runs, and TempDir::with_prefix at the start of compile_and_run
create_scratch(s, what, cell) == s \cup { [what |-> what, cell |-> cell] }
\* a NamedTempFile::keep or TempDir::into_path, which leaves the path on disk
keep_scratch(s, cell) == s
\* Drop of the NamedTempFile and of the TempDir when compiled_c or
\* compiled_cuda returns, by `?`, by Err or by Ok alike
drop_scratch(s, cell) == { x \in s : x.cell # cell }

\* Command::spawn, Command::output or Command::status starts the subprocess of
\* the current stage; the receiver of insert, stats.entry(rev).or_default(), is
\* evaluated before the first field of the Program literal
Spawn ==
  /\ pc = "spawn"
  /\ child' = [kind |-> ChildKind(mode, stage), status |-> "running",
               deadline |-> HasDeadline(stage), written |-> << >>]
  /\ scratch' = IF mode \in CompiledModes /\ stage = "gen"
                  THEN create_scratch(scratch, "source", Cell)
                ELSE IF mode \in CompiledModes /\ stage = "cc"
                  THEN create_scratch(scratch, "bin_dir", Cell)
                ELSE scratch
  /\ leaked' = IF child.status = "running" THEN leaked + 1 ELSE leaked
  /\ runner' = IF HasDeadline(stage) THEN "waiting" ELSE "idle"
  /\ stats' = IF mode = 1 THEN entry_or_default(stats, RevLabel(rev)) ELSE stats
  /\ benchStarted' = TRUE
  /\ pc' = "wait"
  /\ UNCHANGED << exit, workspace, remote_revs, listing, bin_dir, rev, progs, prog, mode,
                  stage, cur, curHung, writes, hung, report, faults, buildFailed,
                  readDirFailed, built, buildVars, ranOn, parserVars, runnerVars >>

ProgramOf(c) ==
  [interpreted_c |-> c[1], interpreted_cuda |-> c[2], interpreted_rust |-> c[3],
   compiled_c |-> c[4], compiled_cuda |-> c[5]]

\* compiled_c: Ok(run::compiled_c(..).unwrap()) panics on Err
unwrap_panics(result) == ~result.ok

\* the current field of the Program literal evaluated to `result`: the next
\* field, or the panic of unwrap, or, after the last field, programs.insert and
\* the next program or revision
Finish(result, deadline) ==
  LET fields == (mode :> result) @@ cur
      late == IF deadline THEN curHung \cup { mode } ELSE curHung
      label == RevLabel(rev)
      name == file_stem(progs[prog])
  IN  /\ scratch' = IF mode \in CompiledModes THEN drop_scratch(scratch, Cell) ELSE scratch
      /\ IF mode = 4 /\ unwrap_panics(result)
           THEN /\ pc' = "exited"
                /\ exit' = 101
                /\ workspace' = drop_tempdir(workspace)
                /\ UNCHANGED << rev, prog, mode, stage, stats, cur, curHung, writes, hung >>
         ELSE IF mode < 5
           THEN /\ cur' = fields
                /\ curHung' = late
                /\ mode' = mode + 1
                /\ stage' = IF mode + 1 \in CompiledModes THEN "gen" ELSE "run"
                /\ pc' = "spawn"
                /\ UNCHANGED << exit, workspace, rev, prog, stats, writes, hung >>
         ELSE /\ stats' = [stats EXCEPT ![label] = insert(@, name, ProgramOf(fields))]
              /\ writes' = Bump(writes, << label, name >>)
              /\ hung' = insert(hung, << label, name >>, late)
              /\ cur' = EmptyMap
              /\ curHung' = {}
              /\ mode' = 1
              /\ stage' = "run"
              /\ IF prog < Len(progs)
                   THEN prog' = prog + 1 /\ pc' = "spawn" /\ rev' = rev
                   ELSE prog' = 1 /\ NextRevision
              /\ UNCHANGED << exit, workspace >>

\* the subprocess exits by itself and the wait returns its status
ChildExits ==
  /\ pc = "wait"
  /\ child.status = "running"
  /\ \E status \in { 0, 1 }, out \in Stdouts :
       LET normal == status = 0 /\ out = StdoutTimed
       IN  /\ stage # "run" => out = StdoutTimed
           /\ normal \/ faults < MaxFaults
           /\ faults' = IF normal THEN faults ELSE faults + 1
           /\ IF stage = "run"
                THEN /\ runner' = IF check_success(status) THEN "ok" ELSE "err"
                     /\ Finish(IF check_success(status) THEN parse_stdout(out) ELSE Err, FALSE)
                ELSE /\ runner' = runner
                     /\ IF check_success(status)
                          THEN /\ stage' = IF stage = "gen" THEN "cc" ELSE "run"
                               /\ pc' = "spawn"
                               /\ UNCHANGED << exit, workspace, rev, prog, mode, stats, cur,
                                               curHung, writes, hung, scratch >>
                          ELSE Finish(Err, FALSE)
           /\ child' = [child EXCEPT !.status = "exited"]
  /\ UNCHANGED << remote_revs, listing, bin_dir, progs, leaked, report, buildFailed,
                  readDirFailed, built, benchStarted, buildVars, ranOn, parserVars,
                  runnerVars >>

\* Child::check_success_timeout of ext.rs when wait_timeout returns None: kills
Ext_check_success_timeout(c) == [c EXCEPT !.status = "killed"]
\* Child::check_success_timeout of run.rs when wait_timeout returns None: returns
\* Ok(None) and leaves the child as it is
check_success_timeout(c) == c

\* interpreted, on Ok(None): return Ok("timeout".to_string())
interpreted_timeout_err == Err
interpreted_timeout == Ok(TIMEOUT_TEXT)
\* compile_and_run, on Ok(None): return Ok("timeout".to_string())
compile_and_run_timeout == Ok(TIMEOUT_TEXT)

\* a status_stdout_timeout that would read the pipe after the deadline
status_stdout_timeout_late_reads(written) == [some |-> TRUE, out |-> written]
\* status_stdout_timeout when check_success_timeout returned Ok(None): the
\* let-else returns Ok(None) before read_to_string, whatever the child wrote
status_stdout_timeout_late(written) == [some |-> FALSE, out |-> << >>]
\* interpreted and compile_and_run on the value of status_stdout_timeout: the
\* let-else returns the timeout outcome on None, parse_stdout runs on Some
after_status_stdout_timeout(r, on_none) == IF r.some THEN parse_stdout(r.out) ELSE on_none

\* the deadline of status_stdout_timeout elapses before the subprocess exits:
\* Ok(None), which interpreted and compile_and_run turn into Ok("timeout")
DeadlineElapses ==
  /\ pc = "wait"
  /\ child.status = "running"
  /\ child.deadline
  /\ faults < MaxFaults
  /\ faults' = faults + 1
  /\ runner' = "timeout"
  /\ \E out \in { << >>, StdoutTimed } :
       /\ child' = [check_success_timeout(child) EXCEPT !.written = out]
       /\ Finish(after_status_stdout_timeout(status_stdout_timeout_late(out),
                    IF mode \in InterpretedModes THEN interpreted_timeout
                    ELSE compile_and_run_timeout), TRUE)
  /\ UNCHANGED << remote_revs, listing, bin_dir, progs, leaked, report, buildFailed,
                  readDirFailed, built, benchStarted, buildVars, ranOn, parserVars,
                  runnerVars >>

\* main: println!("{}", format(&bench.stats)), Ok(()), Bench dropped
Main_Print ==
  /\ pc = "print"
  /\ report' = format(stats)
  /\ exit' = 0
  /\ workspace' = drop_tempdir(workspace)
  /\ pc' = "exited"
  /\ UNCHANGED << remote_revs, listing, bin_dir, rev, progs, prog, mode, stage, child,
                  runner, leaked, stats, cur, curHung, writes, hung, faults, buildFailed,
                  readDirFailed, built, benchStarted, buildVars, scratch, ranOn,
                  parserVars, runnerVars >>

Next ==
  \/ Main_Start
  \/ CloneRemote
  \/ CargoBuildLocal
  \/ RenameLocal
  \/ CreateBinRevDir
  \/ CheckoutRemote
  \/ CargoBuildRemote
  \/ RenameRemote
  \/ Programs
  \/ Spawn
  \/ ChildExits
  \/ DeadlineElapses
  \/ Main_Print

Spec == Init /\ [][Next]_vars

(***************************************************************************)
(* Notions the properties share.                                           *)
(***************************************************************************)
AllRevs == 1..(Len(remote_revs) + 1)
Declared == [k \in AllRevs |-> RevLabel(k)]

\* build_all returned Ok
BuildDone == built

RunEnded == pc = "exited"

\* the text `table` holds for program `name`, `runtime` and revision `label`: in
\* the row of that program and runtime, at the place of the revision among the
\* revisions that hold the program, which is how a row is laid out; whether
\* that place stands under the header column of the revision is C20
CellShows(table, label, name, runtime, text) ==
  LET holders == SortedKeys(RevisionsOf(stats, name))
  IN  \E g \in 1..Len(table.groups), k \in 1..Len(holders) :
        /\ table.groups[g].rows[1][1] = PadRight(name)
        /\ holders[k] = label
        /\ \E r \in 1..Len(table.groups[g].rows) :
             /\ table.groups[g].rows[r][2] = PadRight(runtime)
             /\ Len(table.groups[g].rows[r]) >= k + 2
             /\ table.groups[g].rows[r][k + 2] = text

RuntimeOf(m) == IF m \in { 1, 4 } THEN RT_C ELSE IF m \in { 2, 5 } THEN RT_CUDA ELSE RT_RUST
FieldOf(program, m) ==
  IF m \in InterpretedModes THEN interpreted(program, RuntimeOf(m))
  ELSE compiled(program, RuntimeOf(m))
TableOf(m) == IF m \in InterpretedModes THEN report.interpreted ELSE report.compiled

(***************************************************************************)
(* C1. When a run whose build phase completed ends, whatever the           *)
(* benchmarked subprocesses did, the matrix holds an entry for every       *)
(* (revision, program, mode) of the cross product, written exactly once.   *)
(* The code does not keep this: Ok(compiled_c(..).unwrap()) ends the run   *)
(* by a panic when compiled-c fails.                                       *)
(***************************************************************************)
C1_MatrixComplete ==
  (RunEnded /\ BuildDone /\ ~readDirFailed) =>
    \A k \in AllRevs, f \in 1..Len(listing) :
      LET label == RevLabel(k)
          name == file_stem(listing[f])
      IN  /\ label \in DOMAIN stats
          /\ name \in DOMAIN stats[label]
          /\ << label, name >> \in DOMAIN writes
          /\ writes[<< label, name >>] = 1

(***************************************************************************)
(* C2. Cell isolation: the return of a benchmark subprocess, whatever its  *)
(* outcome and whatever the mode, never ends the run; the iteration goes   *)
(* on with the next stage, mode, program or revision.  The code does not   *)
(* keep this for compiled-c.                                               *)
(***************************************************************************)
C2_CellIsolation == [][pc = "wait" => pc' # "exited"]_vars

(***************************************************************************)
(* C3. Once the build phase succeeded the process prints the report and    *)
(* exits with status zero, whatever happens in the run phase.  The code    *)
(* does not keep this: a panic of unwrap or an error of Bench::programs    *)
(* ends the process with a non-zero status and without a report.           *)
(***************************************************************************)
C3_ExitZeroAfterBuild == (RunEnded /\ BuildDone) => (exit = 0 /\ report.printed)

(***************************************************************************)
(* C4. After status_stdout_timeout returned the timeout outcome, the       *)
(* spawned process is no longer running.  The check_success_timeout that   *)
(* run.rs uses returns Ok(None) without killing the child.                 *)
(***************************************************************************)
C4_NotRunningAfterTimeout == runner = "timeout" => child.status # "running"

(***************************************************************************)
(* C5. A failed checkout or cargo build is fatal: the process has ended    *)
(* with a non-zero status, no benchmark subprocess was spawned, no cell    *)
(* was recorded and no report was printed.                                 *)
(***************************************************************************)
C5_BuildFailureFatal ==
  buildFailed =>
    /\ pc = "exited"
    /\ exit = 1
    /\ ~benchStarted
    /\ stats = EmptyMap
    /\ writes = EmptyMap
    /\ ~report.printed

\* the checkout or the build of the second remote revision failed, after the
\* local build and the first remote revision had succeeded
C5_Witness ==
  /\ buildFailed
  /\ pc = "exited"
  /\ rev = 2
  /\ LOCAL_BIN \in DOMAIN bin_dir
  /\ bin_dir[remote_revs[1]] = "hvm"

(***************************************************************************)
(* C6. The revision columns of both tables, header and data rows, are in   *)
(* declaration order (the remote revisions as given, then "(local)", the   *)
(* order bench_all populates the matrix in) or in its exact reverse.       *)
(* Stated for distinct labels and a non-empty corpus, where every          *)
(* revision has a column.  The code does not keep this: the columns come   *)
(* out in the byte order of the labels, the key order of the BTreeMap.     *)
(***************************************************************************)
Reverse(q) == [k \in 1..Len(q) |-> q[Len(q) + 1 - k]]

DistinctLabels == \A k, n \in AllRevs : k # n => Declared[k] # Declared[n]

\* header and rows of `table` list the revisions in `order`
ColumnsFollow(table, order, section) ==
  /\ table.header.cols
       = << PadRight(FILE_COL), PadRight(RUNTIME_COL) >>
         \o [k \in 1..Len(order) |-> PadRight(order[k])]
  /\ \A g \in 1..Len(table.groups) :
       \E name \in ProgramNames(stats) :
         /\ table.groups[g].rows[1][1] = PadRight(name)
         /\ \A r \in 1..Len(table.groups[g].rows) :
              LET row == table.groups[g].rows[r]
              IN  /\ Len(row) = Len(order) + 2
                  /\ \E runtime \in { RT_C, RT_CUDA, RT_RUST } :
                       /\ row[2] = PadRight(runtime)
                       /\ \A k \in 1..Len(order) :
                            row[k + 2]
                              = PadLeft(unwrap_or_error(
                                  runtime_field(section, stats[order[k]][name], runtime)))

C6_ColumnsInDeclarationOrder ==
  (report.printed /\ listing # << >> /\ DistinctLabels) =>
    \E order \in { Declared, Reverse(Declared) } :
      /\ ColumnsFollow(report.compiled, order, "compiled")
      /\ ColumnsFollow(report.interpreted, order, "interpreted")

(***************************************************************************)
(* C7. A runtime that hangs past the timeout in an interpreted mode: the   *)
(* run goes on with the following mode, the cell is shown in the report as *)
(* the text "timeout", and the process ends with a non-zero status only    *)
(* for a fatal error elsewhere (a failure of the build phase or of         *)
(* Bench::programs, or the panic of unwrap in compiled-c).                 *)
(***************************************************************************)
C7_InterpretedTimeout ==
  /\ \A m \in curHung \cap InterpretedModes :
       \/ pc \in { "spawn", "wait" } /\ mode > m
       \/ pc = "exited" /\ exit = 101 /\ mode = 4
  /\ RunEnded /\ exit # 0 => ~built \/ readDirFailed \/ (exit = 101 /\ mode = 4)
  /\ report.printed =>
       \A key \in DOMAIN hung : \A m \in hung[key] \cap InterpretedModes :
         CellShows(report.interpreted, key[1], key[2], RuntimeOf(m), PadLeft(TIMEOUT_TEXT))

\* a printed report with a cell whose interpreted run hit the deadline
C7_Witness ==
  /\ report.printed
  /\ exit = 0
  /\ \E key \in DOMAIN hung : hung[key] \cap InterpretedModes # {}

(***************************************************************************)
(* C8, as claimed. Every cell is shown as its timing token or, for any     *)
(* other outcome, as "error": a cell whose process hit the deadline is     *)
(* shown like a failed one.                                                *)
(***************************************************************************)
C8_TimeoutShownAsError ==
  report.printed =>
    \A key \in DOMAIN hung : \A m \in 1..5 :
      LET cell == FieldOf(stats[key[1]][key[2]], m)
      IN  CellShows(TableOf(m), key[1], key[2], RuntimeOf(m),
                    PadLeft(IF m \in hung[key] \/ ~cell.ok THEN ERROR_TEXT ELSE cell.val))

(***************************************************************************)
(* C8, amended. Every cell is shown as the text of its stored result when  *)
(* that is Ok and as "error" when it is Err, in both tables; a cell whose  *)
(* process hit the deadline is stored as Ok("timeout") and shown as        *)
(* "timeout", unlike a failed one.                                         *)
(***************************************************************************)
C8_ShownByStoredResult ==
  report.printed =>
    \A key \in DOMAIN hung : \A m \in 1..5 :
      LET cell == FieldOf(stats[key[1]][key[2]], m)
      IN  /\ CellShows(TableOf(m), key[1], key[2], RuntimeOf(m),
                       PadLeft(IF cell.ok THEN cell.val ELSE ERROR_TEXT))
          /\ m \in hung[key] =>
               /\ cell = Ok(TIMEOUT_TEXT)
               /\ CellShows(TableOf(m), key[1], key[2], RuntimeOf(m), PadLeft(TIMEOUT_TEXT))
               /\ ~CellShows(TableOf(m), key[1], key[2], RuntimeOf(m), PadLeft(ERROR_TEXT))

\* a printed report with a cell of a compiled mode whose binary hit the deadline
C8_Witness ==
  /\ report.printed
  /\ \E key \in DOMAIN hung : hung[key] \cap CompiledModes # {}

(***************************************************************************)
(* C9. Write-once matrix: no (revision label, program name) is inserted    *)
(* more than once.  The code does not keep this: two files with one stem,  *)
(* or a remote revision labelled "(local)", are inserted under one key and *)
(* the later insert replaces the earlier entry.                            *)
(***************************************************************************)
C9_WriteOnce == \A key \in DOMAIN writes : writes[key] <= 1

(***************************************************************************)
(* C10. Whenever the run phase waits for a subprocess, a deadline bounds   *)
(* the wait.  The code does not keep this: generate_program waits with     *)
(* Command::output and the native compiler with Command::status, both      *)
(* unbounded.                                                              *)
(***************************************************************************)
C10_EveryWaitHasDeadline == (pc = "wait" /\ child.status = "running") => child.deadline

(***************************************************************************)
(* C11. At every moment at most one subprocess started by the harness is   *)
(* running: a subprocess is spawned only when every subprocess spawned     *)
(* before it has exited or been killed, also after a timeout.  The code    *)
(* does not keep this: after Ok(None) of run.rs's check_success_timeout    *)
(* the child still runs when the next stage is spawned (see C4).           *)
(***************************************************************************)
\* leaked counts the subprocesses that were still running when Spawn started
\* the next one
C11_OneSubprocessAtATime == leaked = 0

(***************************************************************************)
(* C12. The build phase and the run phase are strictly ordered: a          *)
(* benchmark subprocess is started only when the binary of the local tree  *)
(* and of every remote revision has been built and moved to bin/, and from *)
(* the first benchmark subprocess on the harness is never again at a       *)
(* clone, checkout, build or move.                                         *)
(***************************************************************************)
BuildSteps ==
  { "clone", "build_local", "rename_local", "create_dir", "checkout", "build_remote",
    "rename_remote" }
AllBinariesMoved ==
  /\ LOCAL_BIN \in DOMAIN bin_dir
  /\ bin_dir[LOCAL_BIN] = "hvm"
  /\ \A k \in 1..Len(remote_revs) :
       remote_revs[k] \in DOMAIN bin_dir /\ bin_dir[remote_revs[k]] = "hvm"
C12_BuildThenRun ==
  benchStarted =>
    /\ built
    /\ AllBinariesMoved
    /\ target = [local |-> NoBuild, remote |-> NoBuild]
    /\ pc \notin BuildSteps
C12_Witness == benchStarted /\ Len(remote_revs) = 2 /\ rev = 3 /\ pc = "wait"

(***************************************************************************)
(* C14. The private workspace root, the TempDir of Bench, does not outlive *)
(* the run: whenever the process has exited, after the report, after a     *)
(* fatal clone, checkout or build failure or after a failure of the run    *)
(* phase, the directory is no longer on disk.                              *)
(***************************************************************************)
C14_WorkspaceRemoved == RunEnded => workspace # "present"
C14_Witness ==
  /\ RunEnded
  /\ workspace = "removed"
  /\ exit # 0
  /\ benchStarted
  /\ DOMAIN bin_dir # {}

(***************************************************************************)
(* C15. The output of a process that hit the deadline is never parsed:     *)
(* every cell whose process was still running at the deadline holds the    *)
(* timeout outcome, whatever the process had written by then, a complete   *)
(* marker line included.                                                   *)
(***************************************************************************)
C15_LateOutputNotParsed ==
  /\ \A m \in curHung : cur[m] = Ok(TIMEOUT_TEXT)
  /\ \A key \in DOMAIN hung : \A m \in hung[key] :
       FieldOf(stats[key[1]][key[2]], m) = Ok(TIMEOUT_TEXT)
C15_Witness ==
  /\ runner = "timeout"
  /\ child.written = StdoutTimed
  /\ parse_stdout(child.written).ok
  /\ \/ mode - 1 \in curHung
     \/ \E key \in DOMAIN hung : 5 \in hung[key]

Collides ==
  \/ \E i, j \in 1..Len(remote_revs) : i # j /\ remote_revs[i] = remote_revs[j]
  \/ \E i \in 1..Len(remote_revs) : remote_revs[i] = LOCAL_BIN
C18_BinariesNeverCollide ==
  /\ \A e \in DOMAIN binWrites :
       /\ binWrites[e] = 1
       /\ IF e = LOCAL_BIN
            THEN binFrom[e] = [tree |-> "local", rev |-> 0]
            ELSE /\ binFrom[e].tree = "remote"
                 /\ binFrom[e].rev \in 1..Len(remote_revs)
                 /\ remote_revs[binFrom[e].rev] = e
  /\ \A e \in DOMAIN bin_dir : bin_dir[e] = "hvm" => e \in DOMAIN binWrites
  /\ Collides => (~built /\ ~benchStarted /\ (RunEnded => exit = 1))
C18_Witness ==
  /\ RunEnded
  /\ Len(remote_revs) = 2
  /\ remote_revs[2] = LOCAL_BIN
  /\ DOMAIN binWrites = { LOCAL_BIN, remote_revs[1] }
  /\ exit = 1

(***************************************************************************)
(* parse_stdout taken alone: it is given a text and returns.               *)
(***************************************************************************)
ParseInit ==
  /\ remote_revs = << >>
  /\ listing = << >>
  /\ HarnessStart
  /\ RunnerIdle
  /\ stdout_text \in StdoutTexts
  /\ parsed = NotParsed

Parse_Stdout ==
  /\ ~parsed.called
  /\ parsed' = [called |-> TRUE, result |-> parse_stdout(lines(stdout_text))]
  /\ UNCHANGED << harnessVars, runnerVars, stdout_text >>

ParseNext == Parse_Stdout

ParseSpec == ParseInit /\ [][ParseNext]_vars

(***************************************************************************)
(* C13. parse_stdout returns for every text, and what it returns is fixed  *)
(* by the text: the remainder, unchanged, of the first line that begins    *)
(* with "- TIME: ", whatever other lines and later timing lines there are, *)
(* and an error exactly when no line begins with the marker, also for a    *)
(* text that is not empty.  Stated on the raw text: a line begins at the   *)
(* start of the text and after each "\n", and ends before the next "\n"    *)
(* (or "\r\n") or at the end of the text.                                  *)
(***************************************************************************)
MarkerStarts(t) ==
  { p \in 1..Len(t) :
      /\ p = 1 \/ t[p - 1] = "\n"
      /\ p + Len(TIME_PREFIX) - 1 <= Len(t)
      /\ SubSeq(t, p, p + Len(TIME_PREFIX) - 1) = TIME_PREFIX }
RestOfLine(t, p) ==
  LET stops == { q \in p..(Len(t) + 1) : q = Len(t) + 1 \/ t[q] = "\n" }
      q == CHOOSE x \in stops : \A y \in stops : x <= y
      crlf == q <= Len(t) /\ q - 1 >= p /\ t[q - 1] = "\r"
  IN  SubSeq(t, p, IF crlf THEN q - 2 ELSE q - 1)
C13_FirstTimingLine ==
  parsed.called =>
    LET starts == MarkerStarts(stdout_text)
    IN  IF starts = {}
          THEN ~parsed.result.ok
          ELSE LET p == CHOOSE x \in starts : \A y \in starts : x <= y
               IN  /\ parsed.result.ok
                   /\ parsed.result.val = RestOfLine(stdout_text, p + Len(TIME_PREFIX))
C13_Witness ==
  /\ parsed.called
  /\ stdout_text = TIME_PREFIX \o << "1", "\r", "\n" >> \o TIME_PREFIX
  /\ parsed.result = Ok(<< "1" >>)

(***************************************************************************)
(* The harness with a programs directory that other processes change       *)
(* while the run phase is in progress.                                     *)
(***************************************************************************)
\* a file is added to or removed from ./programs; the directory is read by
\* Bench::programs only, so a change counts from the next call of it
DirChanges ==
  /\ pc = "programs"
  /\ \E other \in Listings \ { listing } : listing' = other
  /\ UNCHANGED << pc, exit, workspace, remote_revs, bin_dir, rev, progs, prog, mode, stage,
                  child, runner, leaked, stats, cur, curHung, writes, hung, report, faults,
                  buildFailed, readDirFailed, built, benchStarted, buildVars, scratch,
                  ranOn, parserVars, runnerVars >>

NextDir ==
  \/ Main_Start
  \/ CloneRemote
  \/ CargoBuildLocal
  \/ RenameLocal
  \/ CreateBinRevDir
  \/ CheckoutRemote
  \/ CargoBuildRemote
  \/ RenameRemote
  \/ Programs
  \/ Spawn
  \/ ChildExits
  \/ DeadlineElapses
  \/ Main_Print
  \/ DirChanges

SpecDir == Init /\ [][NextDir]_vars

(***************************************************************************)
(* C17. The program corpus is enumerated once per run and every revision   *)
(* is benchmarked on that same set: whatever is added to or removed from   *)
(* the programs directory during the run phase, no two revisions are       *)
(* benchmarked on different listings.  The code does not keep this:        *)
(* bench_bin calls Bench::programs anew for each revision.                 *)
(***************************************************************************)
C17_OneCorpusForAllRevisions ==
  \A j \in DOMAIN ranOn, k \in DOMAIN ranOn : ranOn[j] = ranOn[k]

(***************************************************************************)
(* C20. Header and rows of the report stay aligned: in both tables every   *)
(* row has as many columns as the header, and the value under the header   *)
(* column of a revision is the rendering of the outcome stored for that    *)
(* revision, also when a program has entries under some revisions only.    *)
(* The code does not keep this: a row holds one column per revision that   *)
(* has the program, with no placeholder for the others.                    *)
(***************************************************************************)
RowsAligned(table, section) ==
  \A g \in 1..Len(table.groups) :
    \E name \in ProgramNames(stats) :
      /\ table.groups[g].rows[1][1] = PadRight(name)
      /\ \A r \in 1..Len(table.groups[g].rows) :
           LET row == table.groups[g].rows[r]
           IN  /\ Len(row) = Len(table.header.cols)
               /\ \A c \in 3..Len(row), label \in RevisionsOf(stats, name),
                     runtime \in { RT_C, RT_CUDA, RT_RUST } :
                    (table.header.cols[c] = PadRight(label) /\ row[2] = PadRight(runtime))
                      => row[c] = PadLeft(unwrap_or_error(
                                    runtime_field(section, stats[label][name], runtime)))
C20_HeaderAndRowsAligned ==
  report.printed =>
    /\ RowsAligned(report.compiled, "compiled")
    /\ RowsAligned(report.interpreted, "interpreted")

(***************************************************************************)
(* status_stdout_timeout taken alone, with the pipe between the process    *)
(* and the harness: the process writes proc.total bytes to its standard    *)
(* output and then exits with proc.code.  It is a process that never      *)
(* idles: the deadline elapses only while it is blocked.                   *)
(***************************************************************************)
\* after Command::spawn and child.stdout.take(); proc.kills tells the copy of
\* check_success_timeout in use: the one of ext.rs kills, the one of run.rs not
RunnerInit ==
  /\ remote_revs = << >>
  /\ listing = << >>
  /\ HarnessStart
  /\ ParserIdle
  /\ \E code \in { 0, 1 }, total \in 0..MaxOutput, kills \in BOOLEAN :
       /\ proc = [status |-> "running", code |-> code, total |-> total, kills |-> kills]
       /\ pending = total
  /\ pipe = 0
  /\ got = 0
  /\ outcome = "waiting"

\* write(2) of the process: it blocks while the pipe is full
Blocked == proc.status = "running" /\ pending > 0 /\ pipe = PipeCapacity

Process_Writes ==
  /\ proc.status = "running"
  /\ outcome = "waiting"
  /\ pending > 0
  /\ pipe < PipeCapacity
  /\ pending' = pending - 1
  /\ pipe' = pipe + 1
  /\ UNCHANGED << harnessVars, parserVars, proc, got, outcome >>

Process_Exits ==
  /\ proc.status = "running"
  /\ pending = 0
  /\ proc' = [proc EXCEPT !.status = "exited"]
  /\ UNCHANGED << harnessVars, parserVars, pending, pipe, got, outcome >>

\* check_success_timeout: wait_timeout returned Some(status)
Wait_Returns ==
  /\ outcome = "waiting"
  /\ proc.status = "exited"
  /\ outcome' = IF check_success(proc.code) THEN "reading" ELSE "err"
  /\ UNCHANGED << harnessVars, parserVars, proc, pending, pipe, got >>

\* check_success_timeout: wait_timeout returned None; status_stdout_timeout
\* returns Ok(None)
Wait_TimesOut ==
  /\ outcome = "waiting"
  /\ Blocked
  /\ outcome' = "none"
  /\ proc' = IF proc.kills THEN Ext_check_success_timeout(proc) ELSE check_success_timeout(proc)
  /\ UNCHANGED << harnessVars, parserVars, pending, pipe, got >>

\* stdout.read_to_string, after the wait only: the bytes in the pipe, then the
\* end of file because the writer has exited
Read_To_String ==
  /\ outcome = "reading"
  /\ IF pipe > 0
       THEN got' = got + 1 /\ pipe' = pipe - 1 /\ outcome' = outcome
       ELSE outcome' = "some" /\ UNCHANGED << got, pipe >>
  /\ UNCHANGED << harnessVars, parserVars, proc, pending >>

\* Ok(None) dropped the ChildStdout: a process left running fails at its write
Stdout_Dropped ==
  /\ outcome = "none"
  /\ proc.status = "running"
  /\ proc' = [proc EXCEPT !.status = "broken_pipe"]
  /\ UNCHANGED << harnessVars, parserVars, pending, pipe, got, outcome >>

RunnerNext ==
  \/ Process_Writes
  \/ Process_Exits
  \/ Wait_Returns
  \/ Wait_TimesOut
  \/ Read_To_String
  \/ Stdout_Dropped

RunnerSpec == RunnerInit /\ [][RunnerNext]_vars

(***************************************************************************)
(* C19. The outcome of status_stdout_timeout does not depend on how much   *)
(* the process writes: a process that writes its whole output and exits    *)
(* with status zero, and never idles, is reported as a success with its    *)
(* complete output and never as a timeout.  The code does not keep this:   *)
(* it reads the pipe only after the wait returned, so a process that       *)
(* writes more than the pipe holds blocks until the deadline.              *)
(***************************************************************************)
C19_OutcomeWhateverTheSize ==
  proc.code = 0 =>
    /\ outcome # "none"
    /\ outcome = "some" => got = proc.total

====
